---- MODULE Spec2Model ----
(***************************************************************************)
(* Model of the decorative animation layer of the portfolio site:          *)
(* setupRandomHeroBg (script/Responsive.js, section 11), the animated      *)
(* hero / topbar gradient.                                                 *)
(*                                                                         *)
(* Representation of numbers.  JavaScript numbers are modelled as exact    *)
(* rationals:                                                              *)
(*   - times (Date.now(), elapsed) are integers, in milliseconds, counted  *)
(*     from the moment setupRandomHeroBg ran;                              *)
(*   - animationProgress is stored as its numerator over                   *)
(*     animationDuration (progress 0.9 is 5400, "progress >= 1" is         *)
(*     "numerator >= animationDuration");                                  *)
(*   - the interpolation parameter t and the positions are pairs           *)
(*     <<numerator, denominator>>;                                         *)
(*   - an alpha is an integer number of hundredths (0.55 is 55).           *)
(* A JavaScript string is the tuple of its pieces: a literal is one piece,  *)
(* a template literal has one piece for each fixed part and each           *)
(* interpolated value.                                                     *)
(***************************************************************************)
EXTENDS Integers, Sequences, FiniteSets, TLC

\* ------------------------------------------------------------------ bounds
\* Math.random() returns k / RandDenom for k in 0 .. RandDenom-1.
RandDenom == 4

\* Date.now() never exceeds MaxSeconds seconds after setup.
MaxSeconds == 15

MaxNow == MaxSeconds * 1000

\* lerpColor as a pure function is applied at t = k / LerpDen, k in 0 .. LerpDen.
LerpDen == 10

\* The gaps (now - lastTime) between two frames, in milliseconds.
Gaps == {0, 2400, 3000, 12000}

\* --------------------------------------------------------------- constants
\* let animationDuration = 6000
animationDuration == 6000

\* Palette de couleurs disponibles (RGBA)
colors ==
  << << "rgba(255, 127, 180, 0.55)" >>,
     << "rgba(168, 85, 247, 0.55)" >>,
     << "rgba(96, 165, 250, 0.55)" >>,
     << "rgba(20, 184, 166, 0.55)" >> >>

\* The characters of each palette string (a literal is one piece, which the
\* model checker cannot take apart, so its characters are listed beside it).
chars ==
  (colors[1] :> << "r", "g", "b", "a", "(", "2", "5", "5", ",", " ", "1", "2", "7", ",", " ", "1", "8", "0", ",", " ", "0", ".", "5", "5", ")" >>)
  @@ (colors[2] :> << "r", "g", "b", "a", "(", "1", "6", "8", ",", " ", "8", "5", ",", " ", "2", "4", "7", ",", " ", "0", ".", "5", "5", ")" >>)
  @@ (colors[3] :> << "r", "g", "b", "a", "(", "9", "6", ",", " ", "1", "6", "5", ",", " ", "2", "5", "0", ",", " ", "0", ".", "5", "5", ")" >>)
  @@ (colors[4] :> << "r", "g", "b", "a", "(", "2", "0", ",", " ", "1", "8", "4", ",", " ", "1", "6", "6", ",", " ", "0", ".", "5", "5", ")" >>)

\* A style property that was never set.
Unset == << >>

\* currentGradient and targetGradient before setupRandomHeroBg declares them.
NoGradient == [ undefined |-> TRUE ]

\* ----------------------------------------------------------------- numbers
Digits == {"0", "1", "2", "3", "4", "5", "6", "7", "8", "9"}

DigitValue(ch) ==
  CASE ch = "0" -> 0 [] ch = "1" -> 1 [] ch = "2" -> 2 [] ch = "3" -> 3
    [] ch = "4" -> 4 [] ch = "5" -> 5 [] ch = "6" -> 6 [] ch = "7" -> 7
    [] ch = "8" -> 8 [] ch = "9" -> 9

\* The length of the run of decimal digits of s that starts at position i.
RECURSIVE DigitRun(_, _)
DigitRun(s, i) ==
  IF i <= Len(s) /\ s[i] \in Digits THEN 1 + DigitRun(s, i + 1) ELSE 0

\* The value of a tuple of decimal digits.
RECURSIVE DecimalValue(_)
DecimalValue(ds) ==
  IF ds = << >> THEN 0
  ELSE 10 * DecimalValue(SubSeq(ds, 1, Len(ds) - 1)) + DigitValue(ds[Len(ds)])

\* colorStr.match(/\d+(\.\d+)?/g): the matches from position i on, left to
\* right, each one a tuple of characters.
RECURSIVE MatchNumbers(_, _)
MatchNumbers(s, i) ==
  IF i > Len(s) THEN << >>
  ELSE IF s[i] \notin Digits THEN MatchNumbers(s, i + 1)
  ELSE LET n    == DigitRun(s, i)
           frac == IF i + n <= Len(s) /\ s[i + n] = "." THEN DigitRun(s, i + n + 1) ELSE 0
           last == IF frac > 0 THEN i + n + frac ELSE i + n - 1
       IN  << SubSeq(s, i, last) >> \o MatchNumbers(s, last + 1)

\* parseInt(str) of a string that starts with a digit: its leading digits.
parseInt(str) == DecimalValue(SubSeq(str, 1, DigitRun(str, 1)))

\* parseFloat(str) of an unsigned decimal with at most two decimals, in
\* hundredths.
parseFloat(str) ==
  LET n    == DigitRun(str, 1)
      frac == IF n + 1 <= Len(str) /\ str[n + 1] = "." THEN DigitRun(str, n + 2) ELSE 0
      d1   == IF frac >= 1 THEN DigitValue(str[n + 2]) ELSE 0
      d2   == IF frac >= 2 THEN DigitValue(str[n + 3]) ELSE 0
  IN  100 * DecimalValue(SubSeq(str, 1, n)) + 10 * d1 + d2

\* Math.round(num / den), den > 0: the nearest integer, a tie going up.
MathRound(num, den) == (2 * num + den) \div (2 * den)

\* (num / den).toFixed(2), den > 0, as a number of hundredths.
toFixed2(num, den) == (2 * num + den) \div (2 * den)

\* ------------------------------------------------------------------ colour
parseColor(colorStr) ==
  LET match == MatchNumbers(chars[colorStr], 1)
  IN  [ r |-> parseInt(match[1]),
        g |-> parseInt(match[2]),
        b |-> parseInt(match[3]),
        a |-> parseFloat(match[4]) ]

\* parseColor of each palette entry, computed once.
ParsedPalette ==
  (colors[1] :> parseColor(colors[1]))
  @@ (colors[2] :> parseColor(colors[2]))
  @@ (colors[3] :> parseColor(colors[3]))
  @@ (colors[4] :> parseColor(colors[4]))

\* The string `rgba(${r}, ${g}, ${b}, ${a})`, as its template pieces.
rgba(r, g, b, a) == << "rgba(", r, ", ", g, ", ", b, ", ", a, ")" >>

\* The interpolation running from c2 to c1.
lerpChannels_reversed(c1, c2, t) ==
  rgba(MathRound(c2.r * t[2] + (c1.r - c2.r) * t[1], t[2]),
       MathRound(c2.g * t[2] + (c1.g - c2.g) * t[1], t[2]),
       MathRound(c2.b * t[2] + (c1.b - c2.b) * t[1], t[2]),
       toFixed2(c2.a * t[2] + (c1.a - c2.a) * t[1], t[2]))

\* The interpolation adding two channels where it takes their difference.
lerpChannels_sum(c1, c2, t) ==
  rgba(MathRound(c1.r * t[2] + (c2.r + c1.r) * t[1], t[2]),
       MathRound(c1.g * t[2] + (c2.g + c1.g) * t[1], t[2]),
       MathRound(c1.b * t[2] + (c2.b + c1.b) * t[1], t[2]),
       toFixed2(c1.a * t[2] + (c2.a + c1.a) * t[1], t[2]))

\* The body of lerpColor once c1 and c2 are parsed: c + (c2 - c1) * t for
\* each channel, t the pair <<numerator, denominator>>.
lerpChannels(c1, c2, t) ==
  rgba(MathRound(c1.r * t[2] + (c2.r - c1.r) * t[1], t[2]),
       MathRound(c1.g * t[2] + (c2.g - c1.g) * t[1], t[2]),
       MathRound(c1.b * t[2] + (c2.b - c1.b) * t[1], t[2]),
       toFixed2(c1.a * t[2] + (c2.a - c1.a) * t[1], t[2]))

lerpColor(color1, color2, t) ==
  lerpChannels(ParsedPalette[color1], ParsedPalette[color2], t)

\* ---------------------------------------------------------------- gradient
\* The results of the nine Math.random() calls of one generateRandomGradient,
\* in call order, each one the numerator k of k / RandDenom.  A tape is
\* chosen by a draw a and a shift b, so that every draw occurs at every call.
Tape(a, b) ==
  LET c == (a + 1 + b) % RandDenom
      d == RandDenom - 1 - a
  IN  << a, c, d, a, d, c, a, d, c >>

RandomTapes == { Tape(a, b) : a \in 0 .. RandDenom - 1, b \in 0 .. 1 }

\* colors[Math.floor(Math.random() * colors.length)]  (1-based here)
randomColor(k) == colors[((k * Len(colors)) \div RandDenom) + 1]

\* Math.random() * 40 + offset
randomPos(k, offset) == << k * 40 + offset * RandDenom, RandDenom >>

\* generateRandomGradient with the offset of pos3Y used for pos2Y.
generateRandomGradient_offset(tape) ==
  [ color1 |-> randomColor(tape[1]),
    color2 |-> randomColor(tape[2]),
    color3 |-> randomColor(tape[3]),
    pos1X  |-> randomPos(tape[4], 10),
    pos1Y  |-> randomPos(tape[5], 10),
    pos2X  |-> randomPos(tape[6], 60),
    pos2Y  |-> randomPos(tape[7], 60),
    pos3X  |-> randomPos(tape[8], 40),
    pos3Y  |-> randomPos(tape[9], 60) ]

generateRandomGradient(tape) ==
  [ color1 |-> randomColor(tape[1]),
    color2 |-> randomColor(tape[2]),
    color3 |-> randomColor(tape[3]),
    pos1X  |-> randomPos(tape[4], 10),
    pos1Y  |-> randomPos(tape[5], 10),
    pos2X  |-> randomPos(tape[6], 60),
    pos2Y  |-> randomPos(tape[7], 20),
    pos3X  |-> randomPos(tape[8], 40),
    pos3Y  |-> randomPos(tape[9], 60) ]

\* The three layers of the radial-gradient string, each one as the values
\* its template interpolates and its fixed transparent stop.
gradientToString(grad) ==
  << << "radial-gradient(circle at ", grad.pos1X, grad.pos1Y, grad.color1, "transparent 35%" >>,
     << "radial-gradient(circle at ", grad.pos2X, grad.pos2Y, grad.color2, "transparent 38%" >>,
     << "radial-gradient(circle at ", grad.pos3X, grad.pos3Y, grad.color3, "transparent 42%" >> >>

\* from + (to - from) * t, for two positions of the same denominator.
lerpPos(from, to, t) ==
  << from[1] * t[2] + (to[1] - from[1]) * t[1], from[2] * t[2] >>

\* interpolate blending every stop from the colours of the first stop.
interpolate_firstStop(current, target, t) ==
  [ color1 |-> lerpColor(current.color1, target.color1, t),
    color2 |-> lerpColor(current.color1, target.color1, t),
    color3 |-> lerpColor(current.color1, target.color1, t),
    pos1X  |-> lerpPos(current.pos1X, target.pos1X, t),
    pos1Y  |-> lerpPos(current.pos1Y, target.pos1Y, t),
    pos2X  |-> lerpPos(current.pos2X, target.pos2X, t),
    pos2Y  |-> lerpPos(current.pos2Y, target.pos2Y, t),
    pos3X  |-> lerpPos(current.pos3X, target.pos3X, t),
    pos3Y  |-> lerpPos(current.pos3Y, target.pos3Y, t) ]

\* Interpole les couleurs et positions
interpolate(current, target, t) ==
  [ color1 |-> lerpColor(current.color1, target.color1, t),
    color2 |-> lerpColor(current.color2, target.color2, t),
    color3 |-> lerpColor(current.color3, target.color3, t),
    pos1X  |-> lerpPos(current.pos1X, target.pos1X, t),
    pos1Y  |-> lerpPos(current.pos1Y, target.pos1Y, t),
    pos2X  |-> lerpPos(current.pos2X, target.pos2X, t),
    pos2Y  |-> lerpPos(current.pos2Y, target.pos2Y, t),
    pos3X  |-> lerpPos(current.pos3X, target.pos3X, t),
    pos3Y  |-> lerpPos(current.pos3Y, target.pos3Y, t) ]

\* ------------------------------------------------------------------- state
VARIABLES
  wrapper,            \* document.querySelector('.hero-wrapper') is an element
  topbar,             \* document.querySelector('.topbar') is an element
  wrapperStyle,       \* wrapper.style: its custom properties, and the
                      \* setProperty calls of the handler that ran last
  topbarStyle,        \* topbar.style, likewise
  called,             \* setupRandomHeroBg has run
  currentGradient,
  targetGradient,
  animationProgress,  \* numerator over animationDuration
  lastTime,
  pendingFrames,      \* callbacks queued by requestAnimationFrame
  generated,          \* calls of generateRandomGradient so far
  rotations,          \* executions of the branch animationProgress >= 1
  lastOp,             \* the handler that ran last
  frameSeq,           \* executions of animate so far, modulo 2
  lerpIn,             \* arguments of lerpColor applied as a pure function
  lerpOut             \* its result

animVars ==
  << wrapper, topbar, wrapperStyle, topbarStyle, called, currentGradient,
     targetGradient, animationProgress, lastTime, pendingFrames, generated,
     rotations, lastOp, frameSeq >>

lerpVars == << lerpIn, lerpOut >>

\* The theme toggle: setupThemeToggle of Responsive.js and
\* optimizeThemeToggle of optimized.js.
VARIABLES
  themeBtn,           \* document.getElementById('theme-toggle') is an element
  prefersDark,        \* matchMedia('(prefers-color-scheme: dark)').matches
  storage,            \* localStorage.getItem('site-theme')
  bodyClass,          \* document.body.classList
  btnOn,              \* toggleBtn.classList.contains('is-on')
  ariaPressed,        \* toggleBtn.getAttribute('aria-pressed')
  ariaLabel,          \* toggleBtn.getAttribute('aria-label')
  themeSetup,         \* setupThemeToggle has run on this page
  optimizedScript,    \* the page loads optimized.js as well
  optimizedAttached,  \* the click listener of optimizeThemeToggle is attached
  timers,             \* pending setTimeout callbacks of playFade, each one
                      \* as the ms left until it fires
  fadeTimer,          \* the timer that the variable fadeTimer identifies
  themeFrames,        \* queued frame callbacks of optimizeThemeToggle
  sinceClick,         \* ms since the last click on this page
  shownBefore,        \* the theme shown before the last click or reload
  themeOp             \* the handler that ran last

themeVars ==
  << themeBtn, prefersDark, storage, bodyClass, btnOn, ariaPressed, ariaLabel,
     themeSetup, optimizedScript, optimizedAttached, timers, fadeTimer,
     themeFrames, sinceClick, shownBefore, themeOp >>

\* The tilt of one card: the closure of setupCardTilt for that card.
VARIABLES
  tiltInstalled,      \* the three listeners of the card are attached
  inside,             \* the pointer is over the card
  rect,               \* rect is not null
  tiltRafId,          \* rafId is not null
  tiltQueue,          \* queued frame callbacks, each one as the pointer
                      \* position of the event it closed over
  cardTransform,      \* card.style.transform
  cardWillChange,     \* card.style.willChange
  cardTransition,     \* card.style.transition
  tiltOp              \* the handler that ran last

tiltVars ==
  << tiltInstalled, inside, rect, tiltRafId, tiltQueue, cardTransform,
     cardWillChange, cardTransition, tiltOp >>

\* The hero parallax: the closure of setupHeroParallax.
VARIABLES
  heroBg,             \* document.querySelector('.hero-bg') is an element
  parallaxInstalled,  \* onScroll is attached to window
  scrollY,            \* window.scrollY
  lastScrollY,
  parallaxRafId,      \* rafId is not null
  parallaxQueue,      \* queued frame callbacks, each one as the
                      \* currentScrollY it closed over
  bgTransform,        \* bg.style.transform
  parallaxOp          \* the handler that ran last

parallaxVars ==
  << heroBg, parallaxInstalled, scrollY, lastScrollY, parallaxRafId,
     parallaxQueue, bgTransform, parallaxOp >>

\* init and the listeners of setupClickAnimations and setupHoverAnimations,
\* on a page with one element of each kind.
VARIABLES
  reduceMotion,       \* matchMedia('(prefers-reduced-motion: reduce)').matches
  initRan,            \* init has run
  clickInstalled,     \* the click and hover listeners are attached
  elClasses,          \* the classes that the listeners add, per element
  motionTimers,       \* pending setTimeout callbacks of the click listeners
  ripples,            \* ripple spans appended and not yet removed
  rippleStyle,        \* style.transform and style.animation of the ripple
                      \* span created last
  pillarHover,        \* the pointer is over .pillar
  iconTransform,      \* style.transform of .pillar-icon
  linkTransition      \* style.transition of a link

motionVars ==
  << reduceMotion, initRan, clickInstalled, elClasses, motionTimers, ripples,
     rippleStyle, pillarHover, iconTransform, linkTransition >>

\* One function returned by debounce(func, wait).
VARIABLES
  dWait,              \* wait
  dTimers,            \* pending timers of later, each one as the ms left
                      \* and the args that its later closed over
  dTimeout,           \* the timer that the variable timeout identifies
  dSince,             \* ms since the last call of executedFunction
  dLastArg,           \* the args of that call
  dFired,             \* func has been invoked since that call
  dFuncArg,           \* the args of the last invocation of func
  dOp                 \* what ran last

debounceVars ==
  << dWait, dTimers, dTimeout, dSince, dLastArg, dFired, dFuncArg, dOp >>

\* One function returned by throttle(func, limit).
VARIABLES
  tLimit,             \* limit
  inThrottle,
  tTimers,            \* pending timers of () => inThrottle = false, each one
                      \* as the ms left
  tSince,             \* ms since the last invocation of func
  tLastArg,           \* the args of the last call of the returned function
  tFuncArg,           \* the args of the last invocation of func
  tCallSeq,           \* calls of the returned function so far, modulo 2
  tFuncSeq            \* invocations of func so far, modulo 2

throttleVars ==
  << tLimit, inThrottle, tTimers, tSince, tLastArg, tFuncArg, tCallSeq, tFuncSeq >>

\* One carousel of the page, as moveCarousel finds it.
VARIABLES
  carouselPresent,    \* document.getElementById(carouselId) is an element
  imageCount,         \* images.length
  activeImages,       \* the indexes of the images with the class active
  moveDirection,      \* direction of the last call of moveCarousel
  moveSeq             \* calls of moveCarousel so far, modulo 2

carouselVars ==
  << carouselPresent, imageCount, activeImages, moveDirection, moveSeq >>

\* Everything outside the hero background.
pageVars == << themeVars, tiltVars, parallaxVars, motionVars, debounceVars, throttleVars, carouselVars >>

\* What the handlers of one part of the page leave alone.
besidesTheme == << animVars, lerpVars, tiltVars, parallaxVars, motionVars, debounceVars, throttleVars, carouselVars >>

besidesTilt == << animVars, lerpVars, themeVars, parallaxVars, motionVars, debounceVars, throttleVars, carouselVars >>

besidesParallax == << animVars, lerpVars, themeVars, tiltVars, motionVars, debounceVars, throttleVars, carouselVars >>

besidesMotion == << animVars, lerpVars, themeVars, tiltVars, parallaxVars, debounceVars, throttleVars, carouselVars >>

besidesDebounce == << animVars, lerpVars, themeVars, tiltVars, parallaxVars, motionVars, throttleVars, carouselVars >>

besidesThrottle == << animVars, lerpVars, themeVars, tiltVars, parallaxVars, motionVars, debounceVars, carouselVars >>

besidesCarousel == << animVars, lerpVars, themeVars, tiltVars, parallaxVars, motionVars, debounceVars, throttleVars >>

vars == << animVars, lerpVars, pageVars >>

StyleProps == {"--hero-bg", "--topbar-bg"}

EmptyStyle == [ props |-> [ p \in StyleProps |-> Unset ], calls |-> 0 ]

\* The style object as a handler finds it: no call made yet.
atHandlerStart(style) == [ style EXCEPT !.calls = 0 ]

\* element.style.setProperty(name, value)
setProperty(style, name, value) ==
  [ props |-> [ style.props EXCEPT ![name] = value ], calls |-> style.calls + 1 ]

\* setupRandomHeroBg without its early return.
earlyReturn_missing(w, t) == FALSE

\* if (!wrapper && !topbar) return;
earlyReturn(w, t) == ~w /\ ~t

\* A handler that does not ask for its next frame.
requestAnimationFrame_dropped(pending) == pending

\* requestAnimationFrame(animate): one more callback is queued.
requestAnimationFrame(pending) == pending + 1

\* The rotation test with > in place of >=.
shouldRotate_strict(progress) == progress > animationDuration

\* if (animationProgress >= 1)
shouldRotate(progress) == progress >= animationDuration

\* The wrap dropping every whole cycle.
wrapProgress_modulo(progress) == progress % animationDuration

\* The wrap starting the next cycle at 0, the remainder dropped.
wrapProgress_zero(progress) == 0

\* animationProgress = animationProgress - 1
wrapProgress(progress) == progress - animationDuration

\* if (wrapper) wrapper.style.setProperty('--hero-bg', value)
writeHero(present, style, value) ==
  IF present THEN setProperty(style, "--hero-bg", value) ELSE style

\* The topbar written without the test of its presence.
writeTopbar_unguarded(present, style, value) ==
  setProperty(style, "--topbar-bg", value)

\* if (topbar) topbar.style.setProperty('--topbar-bg', value)
writeTopbar(present, style, value) ==
  IF present THEN setProperty(style, "--topbar-bg", value) ELSE style

AnimInit ==
  /\ wrapper \in BOOLEAN
  /\ topbar \in BOOLEAN
  /\ wrapperStyle = EmptyStyle
  /\ topbarStyle = EmptyStyle
  /\ called = FALSE
  /\ currentGradient = NoGradient
  /\ targetGradient = NoGradient
  /\ animationProgress = -1        \* not declared yet
  /\ lastTime = -1                 \* not declared yet
  /\ pendingFrames = 0
  /\ generated = 0
  /\ rotations = 0
  /\ lastOp = "none"
  /\ frameSeq = 0

\* lerpColor not applied: no arguments, no result.
NoLerp == << >>

\* ------------------------------------------------------- the theme toggle
fadeDelay == 1100

\* No value: getItem and getAttribute return null, a variable is undefined.
NoAttr == ""

NoTimer == -1

\* The document as it is parsed, before any script has run; localStorage
\* and the system preference are not part of it.
FreshDocument ==
  /\ bodyClass = { }
  /\ btnOn = FALSE
  /\ ariaPressed = NoAttr
  /\ ariaLabel = NoAttr
  /\ themeSetup = FALSE
  /\ optimizedAttached = FALSE
  /\ timers = { }
  /\ fadeTimer = NoTimer
  /\ themeFrames = 0
  /\ sinceClick = -1
  /\ shownBefore = "none"
  /\ themeOp = "none"

\* A page without the toggle button, on which no theme script acts.
ThemeIdle ==
  /\ themeBtn = FALSE
  /\ prefersDark = FALSE
  /\ storage = Unset
  /\ optimizedScript = FALSE
  /\ FreshDocument

\* A card as the document has it, before setupCardTilt.
TiltIdle ==
  /\ tiltInstalled = FALSE
  /\ inside = FALSE
  /\ rect = FALSE
  /\ tiltRafId = FALSE
  /\ tiltQueue = << >>
  /\ cardTransform = Unset
  /\ cardWillChange = NoAttr
  /\ cardTransition = NoAttr
  /\ tiltOp = "none"

\* A page without .hero-bg, before setupHeroParallax.
ParallaxIdle ==
  /\ heroBg = FALSE
  /\ parallaxInstalled = FALSE
  /\ scrollY = 0
  /\ lastScrollY = 0
  /\ parallaxRafId = FALSE
  /\ parallaxQueue = << >>
  /\ bgTransform = Unset
  /\ parallaxOp = "none"

\* The elements that get click listeners.
Clickables == { "project-link", "card", "project-card", "title" }

\* The document before init, under a reduced-motion preference r.
MotionFresh(r) ==
  /\ reduceMotion = r
  /\ initRan = FALSE
  /\ clickInstalled = FALSE
  /\ elClasses = [ el \in Clickables |-> { } ]
  /\ motionTimers = { }
  /\ ripples = 0
  /\ rippleStyle = Unset
  /\ pillarHover = FALSE
  /\ iconTransform = NoAttr
  /\ linkTransition = NoAttr

MotionIdle == MotionFresh(FALSE)

\* debounce(func, wait) has returned and the function was never called.
DebounceFresh(wait) ==
  /\ dWait = wait
  /\ dTimers = { }
  /\ dTimeout = Unset
  /\ dSince = -1
  /\ dLastArg = 0
  /\ dFired = FALSE
  /\ dFuncArg = 0
  /\ dOp = "none"

\* throttle(func, limit) has returned and the function was never called.
ThrottleFresh(limit) ==
  /\ tLimit = limit
  /\ inThrottle = FALSE
  /\ tTimers = { }
  /\ tSince = -1
  /\ tLastArg = 0
  /\ tFuncArg = 0
  /\ tCallSeq = 0
  /\ tFuncSeq = 0

\* optimized.js never calls debounce or throttle itself.
UtilIdle == DebounceFresh(0) /\ ThrottleFresh(0)

\* A page without a carousel, moveCarousel never called.
CarouselIdle ==
  /\ carouselPresent = FALSE
  /\ imageCount = 0
  /\ activeImages = { }
  /\ moveDirection = 0
  /\ moveSeq = 0

PageIdle ==
  ThemeIdle /\ TiltIdle /\ ParallaxIdle /\ MotionIdle /\ UtilIdle /\ CarouselIdle

LerpIdle == lerpIn = NoLerp /\ lerpOut = NoLerp

Init ==
  /\ AnimInit
  /\ LerpIdle
  /\ PageIdle

\* setupRandomHeroBg with its Math.random() results drawn from tapes.
setupWith(tapes) ==
  /\ ~called
  /\ called' = TRUE
  /\ lastOp' = "setup"
  /\ IF earlyReturn(wrapper, topbar)
     THEN UNCHANGED << wrapperStyle, topbarStyle, currentGradient,
                     targetGradient, animationProgress, lastTime,
                     pendingFrames, generated >>
     ELSE \E tape1 \in tapes, tape2 \in tapes :
            LET current == generateRandomGradient(tape1)
                target  == generateRandomGradient(tape2)
                value   == gradientToString(current)
            IN  /\ currentGradient' = current
                /\ targetGradient' = target
                /\ generated' = generated + 2
                /\ animationProgress' = 0
                /\ lastTime' = 0
                /\ wrapperStyle' = writeHero(wrapper, atHandlerStart(wrapperStyle), value)
                /\ topbarStyle' = writeTopbar(topbar, atHandlerStart(topbarStyle), value)
                /\ pendingFrames' = requestAnimationFrame(pendingFrames)
  /\ UNCHANGED << wrapper, topbar, rotations, frameSeq, lerpVars, pageVars >>

setupRandomHeroBg == setupWith(RandomTapes)

\* animate with now - lastTime drawn from gaps and the Math.random() results
\* of a rotation drawn from tapes.
animateWith(gaps, tapes) ==
  /\ pendingFrames > 0
  /\ \E elapsed \in gaps :
       LET now      == lastTime + elapsed
           progress == animationProgress + elapsed
           rotate   == shouldRotate(progress)
       IN  /\ now <= MaxNow
           /\ \E tape \in IF rotate THEN tapes ELSE { << >> } :
                LET current == IF rotate THEN targetGradient ELSE currentGradient
                    target  == IF rotate THEN generateRandomGradient(tape) ELSE targetGradient
                    wrapped == IF rotate THEN wrapProgress(progress) ELSE progress
                    t       == << wrapped, animationDuration >>
                    value   == gradientToString(interpolate(current, target, t))
                IN  /\ animationProgress' = wrapped
                    /\ currentGradient' = current
                    /\ targetGradient' = target
                    /\ generated' = IF rotate THEN generated + 1 ELSE generated
                    /\ rotations' = IF rotate THEN rotations + 1 ELSE rotations
                    /\ wrapperStyle' = writeHero(wrapper, atHandlerStart(wrapperStyle), value)
                    /\ topbarStyle' = writeTopbar(topbar, atHandlerStart(topbarStyle), value)
                    /\ lastTime' = now
                    /\ pendingFrames' = requestAnimationFrame(pendingFrames - 1)
  /\ lastOp' = "animate"
  /\ frameSeq' = (frameSeq + 1) % 2
  /\ UNCHANGED << wrapper, topbar, called, lerpVars, pageVars >>

animate == animateWith(Gaps, RandomTapes)

Next == setupRandomHeroBg \/ animate

Spec == Init /\ [][Next]_vars

\* ------------------------------------------------- the loop, with fairness
\* The same two handlers over fewer Math.random() results and gaps; the
\* browser runs a queued frame callback at its next repaint.
LoopTapes == { Tape(0, 0), Tape(RandDenom - 1, 1) }

LoopSetup == setupWith(LoopTapes)

LoopAnimate == animateWith(Gaps, LoopTapes)

LoopNext == LoopSetup \/ LoopAnimate

LoopSpec == Init /\ [][LoopNext]_vars /\ WF_vars(LoopAnimate)

\* ------------------------------------------- lerpColor as a pure function
LerpInputs ==
  { << colors[i], colors[j], << k, LerpDen >> >> :
      i \in 1 .. Len(colors), j \in 1 .. Len(colors), k \in 0 .. LerpDen }

LerpInit ==
  /\ AnimInit
  /\ lerpIn \in LerpInputs
  /\ lerpOut = NoLerp
  /\ PageIdle

LerpApply ==
  /\ lerpOut = NoLerp
  /\ lerpOut' = lerpColor(lerpIn[1], lerpIn[2], lerpIn[3])
  /\ UNCHANGED << animVars, lerpIn, pageVars >>

LerpPick ==
  /\ lerpOut # NoLerp
  /\ lerpIn' \in LerpInputs
  /\ lerpOut' = NoLerp
  /\ UNCHANGED << animVars, pageVars >>

LerpNext == LerpApply \/ LerpPick

LerpSpec == LerpInit /\ [][LerpNext]_vars

\* ------------------------------------------------ theme toggle: handlers
MaxToggleFrames == 2

\* The times that pass between two events, in ms.
ThemeSteps == { 100, 1000 }

\* Beyond this the time since the last click is not told apart.
SinceCap == 2 * fadeDelay

AnimIdle == AnimInit /\ ~wrapper /\ ~topbar

\* const initialDark = savedTheme ? savedTheme === 'dark' : prefersDark,
\* with the preference in the place of the saved theme.
initialDark_prefers(savedTheme, prefers) == prefers

\* const initialDark = savedTheme ? savedTheme === 'dark' : prefersDark
initialDark(savedTheme, prefers) ==
  IF savedTheme # Unset THEN savedTheme = << "dark" >> ELSE prefers

\* applyTheme that leaves aria-pressed at 'false'.
applyTheme_pressed(isDark) ==
  [ dark    |-> isDark,
    on      |-> isDark,
    pressed |-> "false",
    label   |-> IF isDark THEN "Activer le mode clair" ELSE "Activer le mode sombre",
    saved   |-> IF isDark THEN << "dark" >> ELSE << "light" >> ]

\* What applyTheme(isDark) writes: the class of body, the class and the
\* attributes of the button, the item of localStorage.
applyTheme(isDark) ==
  [ dark    |-> isDark,
    on      |-> isDark,
    pressed |-> IF isDark THEN "true" ELSE "false",
    label   |-> IF isDark THEN "Activer le mode clair" ELSE "Activer le mode sombre",
    saved   |-> IF isDark THEN << "dark" >> ELSE << "light" >> ]

\* classList.add, classList.remove, classList.toggle
classAdd(classes, name) == classes \cup { name }

classRemove(classes, name) == classes \ { name }

classToggle(classes, name) ==
  IF name \in classes THEN classes \ { name } ELSE classes \cup { name }

\* clearTimeout that cancels nothing.
clearTimeout_kept(pending, id) == pending

\* clearTimeout(id): the timer is no longer pending; an id that is
\* undefined or has fired cancels nothing.
clearTimeout(pending, id) == pending \ { id }

\* setTimeout(callback, delay): one more pending timer, delay ms left.
setTimeout(pending, delay) == pending \cup { delay }

\* The application of what applyTheme writes, on top of the classes that
\* body has when it is called.
Applied(a, classes) ==
  /\ bodyClass' = IF a.dark THEN classAdd(classes, "theme-dark")
                            ELSE classRemove(classes, "theme-dark")
  /\ btnOn' = a.on
  /\ ariaPressed' = a.pressed
  /\ ariaLabel' = a.label
  /\ storage' = a.saved

\* The theme that the page shows.
Shown == IF "theme-dark" \in bodyClass THEN "dark" ELSE "light"

setupThemeToggle ==
  /\ ~themeSetup
  /\ themeSetup' = TRUE
  /\ themeOp' = "setup"
  /\ IF ~themeBtn
     THEN UNCHANGED << bodyClass, btnOn, ariaPressed, ariaLabel, storage >>
     ELSE Applied(applyTheme(initialDark(storage, prefersDark)), bodyClass)
  /\ UNCHANGED << themeBtn, prefersDark, optimizedScript, optimizedAttached,
                  timers, fadeTimer, themeFrames, sinceClick, shownBefore >>
  /\ UNCHANGED besidesTheme

\* optimized.js runs after Responsive.js and attaches its listener.
optimizeThemeToggle ==
  /\ optimizedScript
  /\ themeSetup
  /\ themeOp # "optimize"
  /\ ~optimizedAttached
  /\ optimizedAttached' = themeBtn
  /\ themeOp' = "optimize"
  /\ UNCHANGED << themeBtn, prefersDark, storage, bodyClass, btnOn, ariaPressed,
                  ariaLabel, themeSetup, optimizedScript, timers, fadeTimer,
                  themeFrames, sinceClick, shownBefore >>
  /\ UNCHANGED besidesTheme

\* A click on #theme-toggle once the scripts of the page have run: the
\* listener of setupThemeToggle (playFade, then applyTheme), then the
\* listener of optimizeThemeToggle when it is attached.
themeClick ==
  /\ themeBtn
  /\ themeSetup
  /\ optimizedScript => optimizedAttached
  /\ themeFrames < MaxToggleFrames
  /\ shownBefore' = Shown
  /\ sinceClick' = 0
  /\ timers' = setTimeout(clearTimeout(timers, fadeTimer), fadeDelay)
  /\ fadeTimer' = fadeDelay
  /\ Applied(applyTheme("theme-dark" \notin bodyClass),
             classAdd(bodyClass, "theme-fade"))
  /\ themeFrames' = IF optimizedAttached THEN themeFrames + 1 ELSE themeFrames
  /\ themeOp' = "click"
  /\ UNCHANGED << themeBtn, prefersDark, themeSetup, optimizedScript,
                  optimizedAttached >>
  /\ UNCHANGED besidesTheme

\* The callback of playFade's timer: () => body.classList.remove(FADE_CLASS)
fadeTimeout ==
  /\ 0 \in timers
  /\ timers' = timers \ { 0 }
  /\ fadeTimer' = IF fadeTimer = 0 THEN NoTimer ELSE fadeTimer
  /\ bodyClass' = classRemove(bodyClass, "theme-fade")
  /\ themeOp' = "timeout"
  /\ UNCHANGED << themeBtn, prefersDark, storage, btnOn, ariaPressed, ariaLabel,
                  themeSetup, optimizedScript, optimizedAttached, themeFrames,
                  sinceClick, shownBefore >>
  /\ UNCHANGED besidesTheme

\* The frame callback of optimizeThemeToggle:
\* () => body.classList.toggle('theme-dark')
toggleFrame ==
  /\ themeFrames > 0
  /\ themeFrames' = themeFrames - 1
  /\ bodyClass' = classToggle(bodyClass, "theme-dark")
  /\ themeOp' = "frame"
  /\ UNCHANGED << themeBtn, prefersDark, storage, btnOn, ariaPressed, ariaLabel,
                  themeSetup, optimizedScript, optimizedAttached, timers,
                  fadeTimer, sinceClick, shownBefore >>
  /\ UNCHANGED besidesTheme

\* Time passes, up to the moment the next timer is due.
themeTick ==
  /\ themeSetup
  /\ \E d \in ThemeSteps :
       /\ \A left \in timers : d <= left
       /\ timers' = { left - d : left \in timers }
       /\ fadeTimer' = IF fadeTimer = NoTimer THEN NoTimer ELSE fadeTimer - d
       /\ sinceClick' = IF sinceClick < 0 THEN sinceClick
                        ELSE IF sinceClick + d > SinceCap THEN SinceCap
                        ELSE sinceClick + d
  /\ themeOp' = "tick"
  /\ UNCHANGED << themeBtn, prefersDark, storage, bodyClass, btnOn, ariaPressed,
                  ariaLabel, themeSetup, optimizedScript, optimizedAttached,
                  themeFrames, shownBefore >>
  /\ UNCHANGED besidesTheme

\* The page is loaded again: a new document, no timer or frame callback of
\* the old one left, the same localStorage; the system preference may have
\* changed meanwhile.
themeReload ==
  /\ themeSetup
  /\ prefersDark' \in BOOLEAN
  /\ shownBefore' = IF themeBtn THEN Shown ELSE "none"
  /\ bodyClass' = { }
  /\ btnOn' = FALSE
  /\ ariaPressed' = NoAttr
  /\ ariaLabel' = NoAttr
  /\ themeSetup' = FALSE
  /\ optimizedAttached' = FALSE
  /\ timers' = { }
  /\ fadeTimer' = NoTimer
  /\ themeFrames' = 0
  /\ sinceClick' = -1
  /\ themeOp' = "reload"
  /\ UNCHANGED << themeBtn, storage, optimizedScript >>
  /\ UNCHANGED besidesTheme

\* A page with Responsive.js alone.
ThemeInit ==
  /\ AnimIdle
  /\ LerpIdle
  /\ CarouselIdle
  /\ themeBtn \in BOOLEAN
  /\ prefersDark \in BOOLEAN
  /\ storage \in { Unset, << "dark" >>, << "light" >> }
  /\ optimizedScript = FALSE
  /\ FreshDocument
  /\ TiltIdle
  /\ ParallaxIdle
  /\ MotionIdle
  /\ UtilIdle

ThemeNext ==
  setupThemeToggle \/ themeClick \/ fadeTimeout \/ themeTick \/ themeReload

ThemeSpec == ThemeInit /\ [][ThemeNext]_vars

\* A page with Responsive.js and optimized.js.
BothInit ==
  /\ AnimIdle
  /\ LerpIdle
  /\ CarouselIdle
  /\ themeBtn \in BOOLEAN
  /\ prefersDark \in BOOLEAN
  /\ storage \in { Unset, << "dark" >>, << "light" >> }
  /\ optimizedScript = TRUE
  /\ FreshDocument
  /\ TiltIdle
  /\ ParallaxIdle
  /\ MotionIdle
  /\ UtilIdle

BothNext ==
  \/ setupThemeToggle
  \/ optimizeThemeToggle
  \/ themeClick
  \/ toggleFrame
  \/ fadeTimeout
  \/ themeTick
  \/ themeReload

BothSpec == BothInit /\ [][BothNext]_vars

\* --------------------------------------------------------------- card tilt
MaxTiltFrames == 2

maxTilt == 6

\* card.getBoundingClientRect() of the card, and the positions clientX,
\* clientY of the pointer events over it.
CardRect == [ left |-> 0, top |-> 0, width |-> 200, height |-> 100 ]

Pointers == { << 0, 0 >>, << 100, 50 >>, << 150, 25 >>, << 200, 100 >> }

\* (num / den).toFixed(2) as a number of hundredths, den > 0; a negative
\* number is formatted as minus the format of its absolute value.
toFixedSigned(num, den) ==
  IF num >= 0 THEN MathRound(100 * num, den) ELSE 0 - MathRound(0 - 100 * num, den)

\* `perspective(700px) rotateX(${rx}deg) rotateY(${ry}deg)` for the event e:
\* dx = (x - cx) / cx, dy = (y - cy) / cy, rx = (-dy * maxTilt).toFixed(2),
\* ry = (dx * maxTilt).toFixed(2).
tiltTransform(e) ==
  << "perspective(700px) rotateX(",
     toFixedSigned(0 - (2 * (e[2] - CardRect.top) - CardRect.height) * maxTilt, CardRect.height),
     "deg) rotateY(",
     toFixedSigned((2 * (e[1] - CardRect.left) - CardRect.width) * maxTilt, CardRect.width),
     "deg)" >>

neutralTransform == << "perspective(700px) rotateX(0deg) rotateY(0deg)" >>

\* mouseenter
onEnter ==
  /\ tiltInstalled
  /\ ~inside
  /\ inside' = TRUE
  /\ rect' = TRUE
  /\ cardTransition' = "transform 120ms ease"
  /\ cardWillChange' = "transform"
  /\ tiltOp' = "enter"
  /\ UNCHANGED << tiltInstalled, tiltRafId, tiltQueue, cardTransform >>
  /\ UNCHANGED besidesTilt

\* mousemove, at one of the positions pointers
onMoveAt(pointers) ==
  /\ tiltInstalled
  /\ inside
  /\ Len(tiltQueue) < MaxTiltFrames
  /\ \E e \in pointers :
       IF ~rect \/ tiltRafId
       THEN UNCHANGED << tiltRafId, tiltQueue >>
       ELSE /\ tiltQueue' = Append(tiltQueue, e)
            /\ tiltRafId' = TRUE
  /\ tiltOp' = "move"
  /\ UNCHANGED << tiltInstalled, inside, rect, cardTransform, cardWillChange,
                  cardTransition >>
  /\ UNCHANGED besidesTilt

\* mouseleave
onLeave ==
  /\ tiltInstalled
  /\ inside
  /\ inside' = FALSE
  /\ cardTransform' = neutralTransform
  /\ cardWillChange' = "auto"
  /\ tiltRafId' = FALSE
  /\ tiltOp' = "leave"
  /\ UNCHANGED << tiltInstalled, rect, tiltQueue, cardTransition >>
  /\ UNCHANGED besidesTilt

onMove == onMoveAt(Pointers)

\* The frame callback queued by onMove.
tiltFrame ==
  /\ tiltQueue # << >>
  /\ cardTransform' = tiltTransform(Head(tiltQueue))
  /\ tiltRafId' = FALSE
  /\ tiltQueue' = Tail(tiltQueue)
  /\ tiltOp' = "frame"
  /\ UNCHANGED << tiltInstalled, inside, rect, cardWillChange, cardTransition >>
  /\ UNCHANGED besidesTilt

\* setupCardTilt has run on a page with one card.
TiltInit ==
  /\ AnimIdle
  /\ LerpIdle
  /\ CarouselIdle
  /\ ThemeIdle
  /\ ParallaxIdle
  /\ MotionIdle
  /\ UtilIdle
  /\ tiltInstalled = TRUE
  /\ inside = FALSE
  /\ rect = FALSE
  /\ tiltRafId = FALSE
  /\ tiltQueue = << >>
  /\ cardTransform = Unset
  /\ cardWillChange = NoAttr
  /\ cardTransition = NoAttr
  /\ tiltOp = "none"

TiltNext == onEnter \/ onMove \/ onLeave \/ tiltFrame

TiltSpec == TiltInit /\ [][TiltNext]_vars

\* ----------------------------------------------------------- hero parallax
\* The positions that window.scrollY takes, in px.
ScrollPositions == { 0, 1, 100, 101, 300, 500 }

MathAbs(x) == IF x < 0 THEN 0 - x ELSE x

MathMin(a, b) == IF a < b THEN a ELSE b

\* Math.min(16, y * 0.04), in hundredths of a px.
translateOf(y) == MathMin(16 * 100, y * 4)

\* `translate3d(0, ${translate}px, 0)`
translate3d(translate) == << "translate3d(0, ", translate, "px, 0)" >>

\* The window is scrolled to another one of positions; onScroll runs when
\* it is attached.
onScrollTo(positions) ==
  /\ \E currentScrollY \in positions \ { scrollY } :
       /\ scrollY' = currentScrollY
       /\ IF ~parallaxInstalled
             \/ MathAbs(currentScrollY - lastScrollY) < 2
             \/ parallaxRafId
          THEN UNCHANGED << parallaxRafId, parallaxQueue >>
          ELSE /\ parallaxQueue' = Append(parallaxQueue, currentScrollY)
               /\ parallaxRafId' = TRUE
  /\ parallaxOp' = "scroll"
  /\ UNCHANGED << heroBg, parallaxInstalled, lastScrollY, bgTransform >>
  /\ UNCHANGED besidesParallax

onScroll == onScrollTo(ScrollPositions)

\* The frame callback queued by onScroll.
parallaxFrame ==
  /\ parallaxQueue # << >>
  /\ bgTransform' = translate3d(translateOf(Head(parallaxQueue)))
  /\ lastScrollY' = Head(parallaxQueue)
  /\ parallaxRafId' = FALSE
  /\ parallaxQueue' = Tail(parallaxQueue)
  /\ parallaxOp' = "frame"
  /\ UNCHANGED << heroBg, parallaxInstalled, scrollY >>
  /\ UNCHANGED besidesParallax

\* setupHeroParallax has run on a page with .hero-bg, at the top.
ParallaxInit ==
  /\ AnimIdle
  /\ LerpIdle
  /\ CarouselIdle
  /\ ThemeIdle
  /\ TiltIdle
  /\ MotionIdle
  /\ UtilIdle
  /\ heroBg = TRUE
  /\ parallaxInstalled = TRUE
  /\ scrollY = 0
  /\ lastScrollY = 0
  /\ parallaxRafId = FALSE
  /\ parallaxQueue = << >>
  /\ bgTransform = Unset
  /\ parallaxOp = "none"

ParallaxNext == onScroll \/ parallaxFrame

ParallaxSpec == ParallaxInit /\ [][ParallaxNext]_vars

\* ------------------------------------------- init and the click listeners
MaxRipples == 1

\* The classes that the click listener of an element adds, and that its
\* timer removes.
clickClasses ==
  [ el \in Clickables |->
      IF el = "project-link" THEN { "clicked", "glow-click" }
      ELSE IF el = "project-card" THEN { "shine" }
      ELSE { "wobble" } ]

\* init on a page without #theme-toggle: setupThemeToggle returns at once,
\* the scroll reveal, smooth scroll, nav highlight and lazy loading write no
\* style.transform and no style.animation and are left out.
init ==
  /\ ~initRan
  /\ ~themeBtn
  /\ initRan' = TRUE
  /\ themeSetup' = TRUE
  /\ parallaxInstalled' = (~reduceMotion /\ heroBg)
  /\ tiltInstalled' = ~reduceMotion
  /\ clickInstalled' = TRUE
  /\ UNCHANGED << reduceMotion, elClasses, motionTimers, ripples, rippleStyle,
                  pillarHover, iconTransform, linkTransition >>
  /\ UNCHANGED << themeBtn, prefersDark, storage, bodyClass, btnOn, ariaPressed,
                  ariaLabel, optimizedScript, optimizedAttached, timers,
                  fadeTimer, themeFrames, sinceClick, shownBefore, themeOp >>
  /\ UNCHANGED << inside, rect, tiltRafId, tiltQueue, cardTransform,
                  cardWillChange, cardTransition, tiltOp >>
  /\ UNCHANGED << heroBg, scrollY, lastScrollY, parallaxRafId, parallaxQueue,
                  bgTransform, parallaxOp >>
  /\ UNCHANGED << animVars, lerpVars, debounceVars, throttleVars, carouselVars >>

\* The part that the four click listeners share: the classes are added and
\* a timer is set that removes them.
classClick(el) ==
  /\ clickInstalled
  /\ elClasses' = [ elClasses EXCEPT ![el] = @ \cup clickClasses[el] ]
  /\ motionTimers' = motionTimers \cup { el }
  /\ UNCHANGED << reduceMotion, initRan, clickInstalled, pillarHover,
                  iconTransform, linkTransition >>
  /\ UNCHANGED besidesMotion

classTimeout(el) ==
  /\ el \in motionTimers
  /\ elClasses' = [ elClasses EXCEPT ![el] = @ \ clickClasses[el] ]
  /\ motionTimers' = motionTimers \ { el }
  /\ UNCHANGED << reduceMotion, initRan, clickInstalled, ripples, rippleStyle,
                  pillarHover, iconTransform, linkTransition >>
  /\ UNCHANGED besidesMotion

\* click on .project-link, .social-card: the classes, and a ripple span
\* with its style, appended to the element
linkClick ==
  /\ ripples < MaxRipples
  /\ classClick("project-link")
  /\ rippleStyle' = << "translate(-50%, -50%)", "ripple 0.6s ease-out" >>
  /\ ripples' = ripples + 1

\* setTimeout(() => ripple.remove(), 600)
rippleRemove ==
  /\ ripples > 0
  /\ ripples' = ripples - 1
  /\ UNCHANGED << reduceMotion, initRan, clickInstalled, elClasses,
                  motionTimers, rippleStyle, pillarHover, iconTransform,
                  linkTransition >>
  /\ UNCHANGED besidesMotion

linkTimeout == classTimeout("project-link")

cardClick == classClick("card") /\ UNCHANGED << ripples, rippleStyle >>

cardTimeout == classTimeout("card")

projectCardClick == classClick("project-card") /\ UNCHANGED << ripples, rippleStyle >>

projectCardTimeout == classTimeout("project-card")

titleClick == classClick("title") /\ UNCHANGED << ripples, rippleStyle >>

titleTimeout == classTimeout("title")

\* mouseenter on a link that is neither .btn nor .project-link
linkEnter ==
  /\ clickInstalled
  /\ linkTransition' = "all 0.3s ease"
  /\ linkTransition' # linkTransition
  /\ UNCHANGED << reduceMotion, initRan, clickInstalled, elClasses,
                  motionTimers, ripples, rippleStyle, pillarHover,
                  iconTransform >>
  /\ UNCHANGED besidesMotion

\* mouseenter on .pillar
pillarEnter ==
  /\ clickInstalled
  /\ ~pillarHover
  /\ pillarHover' = TRUE
  /\ iconTransform' = "scale(1.2) rotate(10deg)"
  /\ UNCHANGED << reduceMotion, initRan, clickInstalled, elClasses,
                  motionTimers, ripples, rippleStyle, linkTransition >>
  /\ UNCHANGED besidesMotion

\* mouseleave on .pillar
pillarLeave ==
  /\ clickInstalled
  /\ pillarHover
  /\ pillarHover' = FALSE
  /\ iconTransform' = ""
  /\ UNCHANGED << reduceMotion, initRan, clickInstalled, elClasses,
                  motionTimers, ripples, rippleStyle, linkTransition >>
  /\ UNCHANGED besidesMotion

\* The pointer position and the scroll positions of this page.
MotionPointers == { << 150, 25 >> }

MotionScrolls == { 0, 100 }

MotionMove == onMoveAt(MotionPointers)

MotionScroll == onScrollTo(MotionScrolls)

\* A page with .hero-bg, one card, one link, one pillar and no
\* #theme-toggle, before init, with or without the reduced-motion preference.
MotionInit ==
  /\ AnimIdle
  /\ LerpIdle
  /\ CarouselIdle
  /\ ThemeIdle
  /\ TiltIdle
  /\ UtilIdle
  /\ heroBg = TRUE
  /\ parallaxInstalled = FALSE
  /\ scrollY = 0
  /\ lastScrollY = 0
  /\ parallaxRafId = FALSE
  /\ parallaxQueue = << >>
  /\ bgTransform = Unset
  /\ parallaxOp = "none"
  /\ \E r \in BOOLEAN : MotionFresh(r)

MotionNext ==
  \/ init
  \/ linkClick \/ rippleRemove \/ linkTimeout
  \/ cardClick \/ cardTimeout
  \/ projectCardClick \/ projectCardTimeout
  \/ titleClick \/ titleTimeout
  \/ linkEnter \/ pillarEnter \/ pillarLeave
  \/ onEnter \/ MotionMove \/ onLeave \/ tiltFrame
  \/ MotionScroll \/ parallaxFrame

MotionSpec == MotionInit /\ [][MotionNext]_vars

\* ------------------------------------------------------ debounce, throttle
\* The values of wait and limit, the args of the calls, and the times that
\* pass between two events, in ms.
Waits == { 200, 300, 400 }

CallArgs == { 1, 2, 3 }

UtilSteps == { 100 }

\* A timer that is due runs before a call that arrives at the same instant.
NoneDue(lefts) == \A left \in lefts : left > 0

\* executedFunction without its clearTimeout: the timers pile up.
rearm_piled(pending, id, wait, arg) == pending \cup { << wait, arg >> }

\* clearTimeout(timeout); timeout = setTimeout(later, wait), later holding
\* the args of this call
rearm(pending, id, wait, arg) == clearTimeout(pending, id) \cup { << wait, arg >> }

\* A call executedFunction(arg).
debounceCall ==
  /\ NoneDue({ timer[1] : timer \in dTimers })
  /\ \E arg \in CallArgs :
       /\ dTimers' = rearm(dTimers, dTimeout, dWait, arg)
       /\ dTimeout' = << dWait, arg >>
       /\ dLastArg' = arg
  /\ dSince' = 0
  /\ dFired' = FALSE
  /\ dOp' = "call"
  /\ UNCHANGED << dWait, dFuncArg >>
  /\ UNCHANGED besidesDebounce

\* The timer callback later: clearTimeout(timeout); func(...args)
debounceLater ==
  /\ \E timer \in dTimers :
       /\ timer[1] = 0
       /\ dTimers' = clearTimeout(dTimers \ { timer }, dTimeout)
       /\ dTimeout' = IF dTimeout = timer THEN Unset ELSE dTimeout
       /\ dFuncArg' = timer[2]
  /\ dFired' = TRUE
  /\ dOp' = "later"
  /\ UNCHANGED << dWait, dSince, dLastArg >>
  /\ UNCHANGED besidesDebounce

\* Time passes, up to the moment the next timer is due.
debounceTick ==
  /\ dSince >= 0
  /\ \E d \in UtilSteps :
       /\ \A timer \in dTimers : d <= timer[1]
       /\ dTimers' = { << timer[1] - d, timer[2] >> : timer \in dTimers }
       /\ dTimeout' = IF dTimeout = Unset THEN Unset
                      ELSE << dTimeout[1] - d, dTimeout[2] >>
       /\ dSince' = IF dSince > dWait THEN dSince ELSE dSince + d
  /\ dOp' = "tick"
  /\ UNCHANGED << dWait, dLastArg, dFired, dFuncArg >>
  /\ UNCHANGED besidesDebounce

DebounceInit ==
  /\ AnimIdle
  /\ LerpIdle
  /\ CarouselIdle
  /\ ThemeIdle
  /\ TiltIdle
  /\ ParallaxIdle
  /\ MotionIdle
  /\ ThrottleFresh(0)
  /\ \E wait \in Waits : DebounceFresh(wait)

DebounceNext == debounceCall \/ debounceLater \/ debounceTick

DebounceSpec == DebounceInit /\ [][DebounceNext]_vars

\* The test of the returned function, letting every call through.
mayInvoke_always(throttled) == TRUE

\* if (!inThrottle)
mayInvoke(throttled) == ~throttled

\* A call of the function returned by throttle, with arg.
throttleCall ==
  /\ NoneDue(tTimers)
  /\ \E arg \in CallArgs :
       /\ tLastArg' = arg
       /\ tFuncArg' = IF mayInvoke(inThrottle) THEN arg ELSE tFuncArg
  /\ tCallSeq' = (tCallSeq + 1) % 2
  /\ IF mayInvoke(inThrottle)
     THEN /\ tFuncSeq' = (tFuncSeq + 1) % 2
          /\ tSince' = 0
          /\ inThrottle' = TRUE
          /\ tTimers' = setTimeout(tTimers, tLimit)
     ELSE UNCHANGED << tFuncSeq, tSince, inThrottle, tTimers >>
  /\ UNCHANGED tLimit
  /\ UNCHANGED besidesThrottle

\* The timer callback () => inThrottle = false
throttleRelease ==
  /\ 0 \in tTimers
  /\ tTimers' = tTimers \ { 0 }
  /\ inThrottle' = FALSE
  /\ UNCHANGED << tLimit, tSince, tLastArg, tFuncArg, tCallSeq, tFuncSeq >>
  /\ UNCHANGED besidesThrottle

\* Time passes, up to the moment the next timer is due.
throttleTick ==
  /\ tSince >= 0
  /\ tSince <= tLimit
  /\ \E d \in UtilSteps :
       /\ \A left \in tTimers : d <= left
       /\ tTimers' = { left - d : left \in tTimers }
       /\ tSince' = tSince + d
  /\ UNCHANGED << tLimit, inThrottle, tLastArg, tFuncArg, tCallSeq, tFuncSeq >>
  /\ UNCHANGED besidesThrottle

ThrottleInit ==
  /\ AnimIdle
  /\ LerpIdle
  /\ CarouselIdle
  /\ ThemeIdle
  /\ TiltIdle
  /\ ParallaxIdle
  /\ MotionIdle
  /\ DebounceFresh(0)
  /\ \E limit \in Waits : ThrottleFresh(limit)

ThrottleNext == throttleCall \/ throttleRelease \/ throttleTick

ThrottleSpec == ThrottleInit /\ [][ThrottleNext]_vars

\* ---------------------------------------------------------------- carousel
MaxImages == 3

\* The values of direction that the buttons of a carousel pass.
Directions == { -1, 1 }

\* The index that the forEach leaves in currentIndex: the last image with
\* the class active, -1 when there is none.
currentIndexOf(active) ==
  IF active = { } THEN -1
  ELSE CHOOSE i \in active : \A j \in active : j <= i

\* The new index held at the nearer end where the code wraps around.
wrapIndex_clamped(newIndex, length) ==
  IF newIndex < 0 THEN 0
  ELSE IF newIndex >= length THEN length - 1
  ELSE newIndex

\* if (newIndex < 0) newIndex = images.length - 1;
\* else if (newIndex >= images.length) newIndex = 0;
wrapIndex(newIndex, length) ==
  IF newIndex < 0 THEN length - 1
  ELSE IF newIndex >= length THEN 0
  ELSE newIndex

\* The class active left on the current image.
removeCurrent_kept(active, currentIndex) == active

\* if (currentIndex >= 0) images[currentIndex].classList.remove('active')
removeCurrent(active, currentIndex) ==
  IF currentIndex >= 0 THEN classRemove(active, currentIndex) ELSE active

moveCarousel ==
  /\ \E direction \in Directions :
       /\ moveDirection' = direction
       /\ IF ~carouselPresent \/ imageCount = 0
          THEN UNCHANGED activeImages
          ELSE activeImages' =
                 classAdd(removeCurrent(activeImages, currentIndexOf(activeImages)),
                          wrapIndex(currentIndexOf(activeImages) + direction, imageCount))
  /\ moveSeq' = (moveSeq + 1) % 2
  /\ UNCHANGED << carouselPresent, imageCount >>
  /\ UNCHANGED besidesCarousel

\* A page whose markup has the carousel or not, with up to MaxImages images
\* of which any may carry the class active.
CarouselInit ==
  /\ AnimInit /\ ~wrapper /\ ~topbar
  /\ LerpIdle
  /\ ThemeIdle
  /\ TiltIdle
  /\ ParallaxIdle
  /\ MotionIdle
  /\ UtilIdle
  /\ carouselPresent \in BOOLEAN
  /\ imageCount \in 0 .. MaxImages
  /\ activeImages \in SUBSET (0 .. imageCount - 1)
  /\ moveDirection = 0
  /\ moveSeq = 0

CarouselNext == moveCarousel

CarouselSpec == CarouselInit /\ [][CarouselNext]_vars

\* ------------------------------------------------------------- properties
\* setupRandomHeroBg ran and went past its early return.
Started == called /\ (wrapper \/ topbar)

\* A step of animate, and the elapsed time it measured.
FrameStep == frameSeq' # frameSeq

Elapsed == lastTime' - lastTime

\* The gradient strings that the surfaces present hold.
Written ==
  (IF wrapper THEN { wrapperStyle.props["--hero-bg"] } ELSE { })
  \cup (IF topbar THEN { topbarStyle.props["--topbar-bg"] } ELSE { })

\* The three colours of a gradient string, and the numbers of a colour.
ColorsOf(value) == { value[i][4] : i \in 1 .. 3 }

Red(c) == c[2]

Green(c) == c[4]

Blue(c) == c[6]

Alpha(c) == c[8]

\* v lies between a and b, whichever is the larger.
Between(v, a, b) == (a <= v /\ v <= b) \/ (b <= v /\ v <= a)

\* lo <= pos < hi for a position <<numerator, denominator>>.
InRange(pos, lo, hi) == lo * pos[2] <= pos[1] /\ pos[1] < hi * pos[2]

\* Every gradient that generateRandomGradient returns.
Generated == { generateRandomGradient(tape) : tape \in RandomTapes }

\* C1: after every execution of animate, whatever the elapsed time was,
\* the stored animationProgress is in [0, 1).
C1_ProgressBelowOne ==
  lastOp = "animate" =>
    (0 <= animationProgress /\ animationProgress < animationDuration)

\* C2: a frame whose progress + elapsed / duration reaches 1 or more rotates
\* in that same frame: currentGradient becomes the targetGradient of before
\* the frame, one new gradient is generated as targetGradient, and the
\* progress is the raw progress minus exactly 1.
C2_RotationInSameFrame ==
  [][ (FrameStep /\ animationProgress + Elapsed >= animationDuration) =>
        /\ currentGradient' = targetGradient
        /\ generated' = generated + 1
        /\ rotations' = rotations + 1
        /\ targetGradient' \in Generated
        /\ animationProgress' = animationProgress + Elapsed - animationDuration ]_vars

\* Progress 0.9 pushed to 1.3 by a frame: one rotation, progress 0.3.
C2_Witness ==
  lastOp = "animate" /\ rotations = 1 /\ lastTime = 7800 /\ animationProgress = 1800

\* C3: in every frame each of the three colours written to a surface has
\* red, green and blue in 0 .. 255 and an alpha in [0, 1].
C3_WrittenChannelsInRange ==
  lastOp = "animate" =>
    \A value \in Written : \A c \in ColorsOf(value) :
      /\ Red(c) \in 0 .. 255
      /\ Green(c) \in 0 .. 255
      /\ Blue(c) \in 0 .. 255
      /\ Alpha(c) \in 0 .. 100

\* C4: a frame rotates at most once; when the elapsed time carries the raw
\* progress to 2 or more, currentGradient is the targetGradient of before the
\* frame, exactly one gradient is generated and the progress loses 1, once.
C4_AtMostOneRotation ==
  [][ FrameStep =>
        /\ rotations' \in { rotations, rotations + 1 }
        /\ generated' - generated = rotations' - rotations
        /\ (animationProgress + Elapsed >= 2 * animationDuration =>
              /\ rotations' = rotations + 1
              /\ currentGradient' = targetGradient
              /\ animationProgress' = animationProgress + Elapsed - animationDuration) ]_vars

\* One rotation, and a progress still at 1 or more: the frame that rotated
\* covered two durations or more.
C4_Witness ==
  lastOp = "animate" /\ rotations = 1 /\ animationProgress >= animationDuration

\* C5: with neither .hero-wrapper nor .topbar, setupRandomHeroBg writes no
\* style property, generates no gradient and schedules no frame, and no
\* frame callback ever runs.
C5_NoSurfaceNoEffect ==
  (~wrapper /\ ~topbar) =>
    /\ generated = 0
    /\ pendingFrames = 0
    /\ lastOp # "animate"
    /\ frameSeq = 0
    /\ wrapperStyle = EmptyStyle
    /\ topbarStyle = EmptyStyle
    /\ currentGradient = NoGradient
    /\ targetGradient = NoGradient

\* setupRandomHeroBg has returned on a page without the two surfaces.
C5_Witness == called /\ ~wrapper /\ ~topbar /\ lastOp = "setup"

\* The string a handler writes: the current gradient at setup, the
\* interpolated one in a frame.
HandlerValue ==
  IF lastOp = "setup"
  THEN gradientToString(currentGradient)
  ELSE gradientToString(interpolate(currentGradient, targetGradient,
                                    << animationProgress, animationDuration >>))

\* C6: in the initial write and in every frame, a surface that is present
\* is written exactly once, two surfaces present hold the same gradient
\* string, computed from the one interpolated state, each under its own
\* property; a surface that is absent is never written.
C6_SurfacesInSync ==
  Started =>
    /\ wrapperStyle.calls = (IF wrapper THEN 1 ELSE 0)
    /\ topbarStyle.calls = (IF topbar THEN 1 ELSE 0)
    /\ ~wrapper => wrapperStyle = EmptyStyle
    /\ ~topbar => topbarStyle = EmptyStyle
    /\ wrapper => wrapperStyle.props =
                    [ EmptyStyle.props EXCEPT !["--hero-bg"] = HandlerValue ]
    /\ topbar => topbarStyle.props =
                   [ EmptyStyle.props EXCEPT !["--topbar-bg"] = HandlerValue ]

\* A frame with a rotation has run on a page that has the wrapper only.
C6_Witness ==
  Started /\ wrapper /\ ~topbar /\ lastOp = "animate" /\ rotations >= 1

\* C7: once started with a surface, exactly one frame callback is pending
\* between two handlers, and another frame always eventually runs.
C7_LoopNeverStops ==
  /\ [](Started => pendingFrames = 1)
  /\ \A n \in {0, 1} : (Started /\ frameSeq = n) ~> (frameSeq # n)

\* Two frames or more have run and one callback is pending.
C7_Witness ==
  Started /\ lastOp = "animate" /\ frameSeq = 0 /\ pendingFrames = 1

\* C8: currentGradient and targetGradient always have exactly 3 stops, each
\* colour a palette entry, stop 1 at x, y in [10, 50), stop 2 at x in
\* [60, 100), y in [20, 60), stop 3 at x in [40, 80), y in [60, 100).
C8_GradientsWellFormed ==
  Started =>
    \A grad \in { currentGradient, targetGradient } :
      /\ DOMAIN grad = { "color1", "color2", "color3", "pos1X", "pos1Y",
                         "pos2X", "pos2Y", "pos3X", "pos3Y" }
      /\ \A c \in { grad.color1, grad.color2, grad.color3 } :
           \E i \in 1 .. 4 : c = colors[i]
      /\ Len(colors) = 4
      /\ InRange(grad.pos1X, 10, 50) /\ InRange(grad.pos1Y, 10, 50)
      /\ InRange(grad.pos2X, 60, 100) /\ InRange(grad.pos2Y, 20, 60)
      /\ InRange(grad.pos3X, 40, 80) /\ InRange(grad.pos3Y, 60, 100)

\* Both gradients come from rotations, and they differ.
C8_Witness ==
  Started /\ rotations >= 2 /\ currentGradient # targetGradient

\* C9: for two palette colours, lerpColor at t = 0 is the first colour and
\* at t = 1 the second one, channels and alpha (at 2 decimals).
C9_LerpEndpoints ==
  lerpOut # NoLerp =>
    LET c1 == parseColor(lerpIn[1])
        c2 == parseColor(lerpIn[2])
        t  == lerpIn[3]
    IN  /\ t[1] = 0 => lerpOut = rgba(c1.r, c1.g, c1.b, c1.a)
        /\ t[1] = t[2] => lerpOut = rgba(c2.r, c2.g, c2.b, c2.a)

\* lerpColor applied at t = 1 to two different colours.
C9_Witness ==
  lerpOut # NoLerp /\ lerpIn[3][1] = lerpIn[3][2] /\ lerpIn[1] # lerpIn[2]

\* C10: for two palette colours and t in [0, 1], each channel of lerpColor
\* is an integer between the two input channels, so in 0 .. 255, and the
\* alpha is between the two input alphas, so in [0, 1].
C10_LerpBetweenInputs ==
  lerpOut # NoLerp =>
    LET c1 == parseColor(lerpIn[1])
        c2 == parseColor(lerpIn[2])
    IN  /\ Between(Red(lerpOut), c1.r, c2.r) /\ Red(lerpOut) \in 0 .. 255
        /\ Between(Green(lerpOut), c1.g, c2.g) /\ Green(lerpOut) \in 0 .. 255
        /\ Between(Blue(lerpOut), c1.b, c2.b) /\ Blue(lerpOut) \in 0 .. 255
        /\ Between(Alpha(lerpOut), c1.a, c2.a) /\ Alpha(lerpOut) \in 0 .. 100

\* lerpColor applied strictly inside (0, 1) to two different colours.
C10_Witness ==
  /\ lerpOut # NoLerp
  /\ 0 < lerpIn[3][1] /\ lerpIn[3][1] < lerpIn[3][2]
  /\ lerpIn[1] # lerpIn[2]

\* ---------------------------------------------------------------- C11
\* The colour of stop i of a gradient state.
StopColor(grad, i) ==
  IF i = 1 THEN grad.color1 ELSE IF i = 2 THEN grad.color2 ELSE grad.color3

\* r is num / den rounded to the nearest integer, halves upwards.
RoundsTo(r, num, den) ==
  2 * den * r - den <= 2 * num /\ 2 * num < 2 * den * r + den

\* The channels of the written colour c are those of c1 + (c2 - c1) * p
\* rounded, p the numerator of the progress.
ChannelsLerped(c, c1, c2, p) ==
  /\ RoundsTo(Red(c), c1.r * animationDuration + (c2.r - c1.r) * p, animationDuration)
  /\ RoundsTo(Green(c), c1.g * animationDuration + (c2.g - c1.g) * p, animationDuration)
  /\ RoundsTo(Blue(c), c1.b * animationDuration + (c2.b - c1.b) * p, animationDuration)

\* The channels of c are the midpoints of those of c1 and c2, rounded.
ChannelsMidpoint(c, c1, c2) ==
  /\ 2 * Red(c) - (c1.r + c2.r) \in {0, 1}
  /\ 2 * Green(c) - (c1.g + c2.g) \in {0, 1}
  /\ 2 * Blue(c) - (c1.b + c2.b) \in {0, 1}

\* C11: in a frame where progress + elapsed / duration stays below 1 the
\* progress grows by exactly elapsed / duration, currentGradient and
\* targetGradient are left as they were, and every channel written is
\* round(current + (target - current) * progress) at the new progress; from
\* progress 0 a frame of 3000 ms writes the rounded midpoints.
C11_PlainFrameInterpolates ==
  [][ (FrameStep /\ animationProgress + Elapsed < animationDuration) =>
        /\ animationProgress' = animationProgress + Elapsed
        /\ currentGradient' = currentGradient
        /\ targetGradient' = targetGradient
        /\ rotations' = rotations
        /\ \A value \in Written' : \A i \in 1 .. 3 :
             /\ ChannelsLerped(value[i][4],
                               ParsedPalette[StopColor(currentGradient, i)],
                               ParsedPalette[StopColor(targetGradient, i)],
                               animationProgress')
             /\ (animationProgress = 0 /\ Elapsed = 3000) =>
                  ChannelsMidpoint(value[i][4],
                                   ParsedPalette[StopColor(currentGradient, i)],
                                   ParsedPalette[StopColor(targetGradient, i)]) ]_vars

\* The first frame comes 3000 ms after the setup, between two gradients
\* whose stops differ in colour, and the midpoints are written.
C11_Witness ==
  /\ lastOp = "animate" /\ rotations = 0
  /\ lastTime = 3000 /\ animationProgress = 3000
  /\ wrapper /\ topbar
  /\ currentGradient.color1 # targetGradient.color1
  /\ currentGradient.color2 # targetGradient.color2
  /\ \A value \in Written : \A i \in 1 .. 3 :
       ChannelsMidpoint(value[i][4],
                        ParsedPalette[StopColor(currentGradient, i)],
                        ParsedPalette[StopColor(targetGradient, i)])

\* ---------------------------------------------------------------- C12
\* A step of setupThemeToggle on a page that has the button.
ThemeSetupStep == themeBtn /\ themeOp' = "setup" /\ themeOp # "setup"

FourAgree ==
  \/ /\ "theme-dark" \in bodyClass
     /\ btnOn
     /\ ariaPressed = "true"
     /\ storage = << "dark" >>
  \/ /\ "theme-dark" \notin bodyClass
     /\ ~btnOn
     /\ ariaPressed = "false"
     /\ storage = << "light" >>

C17_BothListenersAgree ==
  (themeOp = "frame" /\ themeFrames = 0 /\ optimizedAttached) =>
    /\ ("theme-dark" \in bodyClass) <=>
         (storage = << "dark" >> /\ ariaPressed = "true")
    /\ Shown # shownBefore

\* ---------------------------------------------------------------- C20
\* C20: body has the class theme-fade from a click until 1100 ms after the
\* last click, no sooner and no later: while less than 1100 ms have passed
\* the class is there, and whenever it is there the one pending timer is
\* the one of the last click, due 1100 ms after it, so that the class goes
\* when that time has come.
C20_FadeUntilLastClickPlusDelay ==
  themeSetup =>
    /\ sinceClick \in 0 .. fadeDelay - 1 => "theme-fade" \in bodyClass
    /\ "theme-fade" \in bodyClass =>
         /\ sinceClick \in 0 .. fadeDelay
         /\ fadeTimer = fadeDelay - sinceClick
    /\ timers = IF "theme-fade" \in bodyClass THEN { fadeTimer } ELSE { }

\* The timer of the last click has just removed the class, 1100 ms after it.
C20_Witness ==
  /\ themeOp = "timeout"
  /\ sinceClick = fadeDelay
  /\ "theme-fade" \notin bodyClass
  /\ timers = { }

\* ---------------------------------------------------------------- C18
\* C18: once the pointer has left the card and every frame callback
\* requested before has run, the transform of the card is the neutral one
\* for as long as the pointer stays outside; and there is never more than
\* one tilt frame callback of the card pending.
C18_NeutralAfterLeave ==
  /\ (tiltOp # "none" /\ ~inside /\ tiltQueue = << >>) =>
       cardTransform = neutralTransform
  /\ Len(tiltQueue) <= 1

\* ---------------------------------------------------------------- C19
\* C19: there is never more than one parallax frame callback pending; and
\* when no callback is pending and the window stands 2 px or more away from
\* the position last applied, the translate applied is
\* min(16, 0.04 * scrollY) for the position at which the window stands.
C19_ParallaxFollowsScroll ==
  /\ Len(parallaxQueue) <= 1
  /\ (parallaxInstalled /\ parallaxQueue = << >>
        /\ MathAbs(scrollY - lastScrollY) >= 2) =>
       bgTransform = translate3d(translateOf(scrollY))

\* The half of C19 that holds: at most one callback pending.
ParallaxOnePending == Len(parallaxQueue) <= 1

\* ---------------------------------------------------------------- C13
\* C13: when prefers-reduced-motion: reduce matched at init, nothing that
\* runs after init in response to a scroll, pointer or click event changes
\* the style.transform or the style.animation of an element.
C13_ReducedMotionNoTransform ==
  [][ (reduceMotion /\ initRan) =>
        /\ cardTransform' = cardTransform
        /\ bgTransform' = bgTransform
        /\ iconTransform' = iconTransform
        /\ rippleStyle' = rippleStyle ]_vars

\* ---------------------------------------------------------------- C14
\* C14: func is invoked only when wait ms have passed since the last call,
\* hence never while calls arrive less than wait apart; it is invoked with
\* the args of that last call, and once: as long as it has not been invoked
\* since the last call exactly one timer is pending, due wait ms after that
\* call, and once it has been invoked no timer is left.
C14_DebounceOncePerBurst ==
  /\ [](dSince >= 0 =>
          dTimers = IF dFired THEN { } ELSE { << dWait - dSince, dLastArg >> })
  /\ [][ dOp' = "later" =>
           /\ dSince = dWait
           /\ ~dFired
           /\ dFuncArg' = dLastArg ]_vars

\* Two calls less than wait apart, then wait ms of silence: func has just
\* been invoked, with the args of the second call.
C14_Witness ==
  /\ dOp = "later" /\ dFired
  /\ dSince = dWait
  /\ dFuncArg = dLastArg /\ dFuncArg = 2

\* ---------------------------------------------------------------- C15
\* A call of the returned function, and an invocation of func.
ThrottleCallStep == tCallSeq' # tCallSeq

ThrottleInvoked == tFuncSeq' # tFuncSeq

\* C15: a call made when func was not invoked in the last limit ms invokes
\* func at once with its args; two invocations are never less than limit ms
\* apart; a call inside the window invokes nothing and sets no timer, and
\* func is invoked by calls only, never by a timer.
C15_ThrottleWindow ==
  [][ /\ (ThrottleCallStep /\ (tSince < 0 \/ tSince >= tLimit)) =>
           (ThrottleInvoked /\ tFuncArg' = tLastArg')
      /\ ThrottleInvoked =>
           (ThrottleCallStep /\ (tSince < 0 \/ tSince >= tLimit))
      /\ (ThrottleCallStep /\ tSince >= 0 /\ tSince < tLimit) =>
           (~ThrottleInvoked /\ tTimers' = tTimers /\ tFuncArg' = tFuncArg) ]_vars

\* A call inside the window of an earlier invocation has been dropped.
C15_Witness ==
  /\ inThrottle
  /\ tSince = 100
  /\ tCallSeq = 0 /\ tFuncSeq = 1
  /\ tLastArg = 2 /\ tFuncArg = 1

\* ---------------------------------------------------------------- C23
\* C23: the clock loses no time. After every handler animationProgress plus
\* the number of rotations so far is (lastTime - start) / animationDuration,
\* lastTime being counted from the moment setupRandomHeroBg ran.
C23_ClockLosesNoTime ==
  Started => animationProgress + rotations * animationDuration = lastTime

\* Frames of 3000, 3000 and 2400 ms: one rotation, progress 0.4, 8400 ms.
C23_Witness ==
  /\ lastOp = "animate" /\ rotations = 1
  /\ lastTime = 8400 /\ animationProgress = 2400

\* ---------------------------------------------------------------- C21
\* A call of moveCarousel.
MoveStep == moveSeq' # moveSeq

\* C21: on a carousel with at least one image, a call of moveCarousel that
\* finds at most one image active leaves exactly one image active; so from
\* a markup with at most one active image every sequence of calls does.
C21_ExactlyOneActive ==
  [][ (MoveStep /\ carouselPresent /\ imageCount >= 1
         /\ Cardinality(activeImages) <= 1) =>
        Cardinality(activeImages') = 1 ]_vars

\* One call backwards on three images, from the first image or from no
\* active image: the last image alone is active.
C21_Witness ==
  /\ carouselPresent /\ imageCount = 3
  /\ moveSeq = 1 /\ moveDirection = -1
  /\ activeImages = { 2 }

\* ---------------------------------------------------------------- C22
\* C22: with the image at index i the one active among n, moveCarousel with
\* direction d makes the image at (i + d) mod n the one active, around both
\* ends; without the carousel or without images nothing changes.
C22_MovesAroundTheEnds ==
  [][ MoveStep =>
        /\ (carouselPresent /\ imageCount >= 1) =>
             \A i \in 0 .. imageCount - 1 :
               activeImages = { i } =>
                 activeImages' = { (i + moveDirection') % imageCount }
        /\ (~carouselPresent \/ imageCount = 0) =>
             /\ activeImages' = activeImages
             /\ imageCount' = imageCount
             /\ carouselPresent' = carouselPresent ]_vars

\* Two calls forward on three images, the second one from the last image:
\* the first image is active again.
C22_Witness ==
  /\ carouselPresent /\ imageCount = 3
  /\ moveSeq = 0 /\ moveDirection = 1
  /\ activeImages = { 0 }

====
